---- MODULE Spec2Model ----
(***************************************************************************)
(* A model of the translator of @juit/vue-i18n (lib/translator.ts): the    *)
(* locale state of a translator, the template cache, the parsing of a raw  *)
(* message into its zero / singular / plural variants and the              *)
(* interpolation of parameters.                                            *)
(*                                                                         *)
(* JavaScript strings that the code parses (messages, translation keys,    *)
(* parameter names and values) are sequences of one-character strings;     *)
(* language tags, which the code only compares and concatenates, are       *)
(* TLA+ strings.                                                           *)
(***************************************************************************)
EXTENDS Integers, Sequences, FiniteSets, TLC

VARIABLES
  defaultLanguage,  \* makeTranslator: the normalized default language
  translations,     \* makeTranslator: the (cloned) translation table
  locale,           \* makeTranslator: locale.value, an Intl.Locale
  caches,           \* the module-level WeakMap of template caches
  call,             \* the last operation: its name, arguments and outcome
  diags,            \* the diagnostics (warn) the last operation emitted
  arg,              \* the argument of a utility function applied on its own
  ret               \* the result of a utility function applied on its own

vars == <<defaultLanguage, translations, locale, caches, call, diags, arg, ret>>

(***************************************************************************)
(* Bounds                                                                  *)
(***************************************************************************)
MaxLen == 5        \* length of the raw messages the parser is applied to
MaxCached == 2     \* language caches and templates in the cache of one translator

(***************************************************************************)
(* Strings                                                                 *)
(***************************************************************************)
BS == "\\"
PIPE == "|"
SP == " "

\* All sequences over S of length at most n
RECURSIVE SeqsUpTo(_, _)
SeqsUpTo(S, n) ==
  IF n = 0 THEN {<<>>}
  ELSE LET shorter == SeqsUpTo(S, n - 1)
       IN shorter \cup {Append(s, c) : s \in {t \in shorter : Len(t) = n - 1}, c \in S}

\* String.prototype.trim, start side
RECURSIVE TrimStart(_)
TrimStart(s) ==
  IF s # <<>> /\ Head(s) = SP THEN TrimStart(Tail(s)) ELSE s

\* String.prototype.trim, end side
RECURSIVE TrimEnd(_)
TrimEnd(s) ==
  IF s # <<>> /\ s[Len(s)] = SP THEN TrimEnd(SubSeq(s, 1, Len(s) - 1)) ELSE s

\* String.prototype.trim
Trim(s) == TrimEnd(TrimStart(s))

(***************************************************************************)
(* extractTemplate: the separator /(?<!\\)(?:\\\\)*\|/ and String.split    *)
(***************************************************************************)

\* The number of whole `\\` pairs of s starting at index q
RECURSIVE PairsAt(_, _)
PairsAt(s, q) ==
  IF q + 1 <= Len(s) /\ s[q] = BS /\ s[q + 1] = BS THEN 1 + PairsAt(s, q + 2) ELSE 0

\* A separator that is a bare pipe not preceded by a backslash: /(?<!\\)\|/
SeparatorEndNoPairs(s, q) ==
  IF (q = 1 \/ s[q - 1] # BS) /\ q <= Len(s) /\ s[q] = PIPE THEN q + 1 ELSE 0

\* The separator regular expression matched at index q of s (sticky): the
\* index after the match, or 0 when it does not match at q.  The lookbehind
\* wants no backslash before q; the group takes pairs of backslashes, the
\* most it can first, and the match ends with the pipe.
SeparatorEnd(s, q) ==
  IF q = 1 \/ s[q - 1] # BS
  THEN LET tries == {j \in 0..PairsAt(s, q) : q + 2 * j <= Len(s) /\ s[q + 2 * j] = PIPE}
       IN IF tries = {} THEN 0
          ELSE LET j == CHOOSE x \in tries : \A y \in tries : y <= x IN q + 2 * j + 1
  ELSE 0

\* RegExp.prototype[Symbol.split] on a non-empty string: p is the index
\* after the last separator, q the index the separator is tried at.  The
\* result is the pairs <<first, last>> of the segments' indices in s.
RECURSIVE SplitSpans(_, _, _, _)
SplitSpans(s, p, q, acc) ==
  IF q > Len(s) THEN Append(acc, <<p, Len(s)>>)
  ELSE LET e == SeparatorEnd(s, q)
       IN IF e = 0 \/ e = p THEN SplitSpans(s, p, q + 1, acc)
          ELSE SplitSpans(s, e, e, Append(acc, <<p, q - 1>>))

\* string.split(separator): the segments of a non-empty string
Split(s) ==
  LET spans == SplitSpans(s, 1, 1, <<>>)
  IN [i \in 1..Len(spans) |-> SubSeq(s, spans[i][1], spans[i][2])]

\* The pipes of s that end a separator match of the split
SplitPoints(s) ==
  LET spans == SplitSpans(s, 1, 1, <<>>)
  IN {spans[i][1] - 1 : i \in 2..Len(spans)}

\* Variants taken in the order of the two-segment case for three segments
ParseVariantsSingularFirst(segments) ==
  IF Len(segments) = 1
  THEN [zero |-> segments[1], singular |-> segments[1], plural |-> segments[1]]
  ELSE [zero |-> segments[2], singular |-> segments[1], plural |-> segments[Len(segments)]]

\* extractTemplate, lines 681-690: the variants of the split message
ParseVariants(segments) ==
  IF Len(segments) = 1
  THEN [zero |-> segments[1], singular |-> segments[1], plural |-> segments[1]]
  ELSE IF Len(segments) = 2
  THEN [zero |-> segments[2], singular |-> segments[1], plural |-> segments[2]]
  ELSE [zero |-> segments[1], singular |-> segments[2], plural |-> segments[3]]

EmptyTemplate == [zero |-> <<>>, singular |-> <<>>, plural |-> <<>>]

\* extractTemplate, lines 678-693: a non-empty raw message, parsed
ParseMessage(string) ==
  LET parsed == ParseVariants(Split(string))
  IN [zero |-> Trim(parsed.zero), singular |-> Trim(parsed.singular),
      plural |-> Trim(parsed.plural)]

(***************************************************************************)
(* extractTemplate: the message of the first language of the order         *)
(***************************************************************************)

\* translation[language]: the message, or the empty string for undefined
\* (the code tests both with `if (string)` and tells them apart nowhere)
EntryGet(translation, language) ==
  IF language \in DOMAIN translation THEN translation[language] ELSE <<>>

\* The loop scanning the order from its last language to its first
RECURSIVE FirstMessageFromLast(_, _, _)
FirstMessageFromLast(translation, languages, i) ==
  LET k == Len(languages) + 1 - i
  IN IF i > Len(languages) THEN <<>>
     ELSE IF EntryGet(translation, languages[k]) # <<>>
     THEN EntryGet(translation, languages[k])
     ELSE FirstMessageFromLast(translation, languages, i + 1)

\* extractTemplate, lines 665-670: the loop over the languages, from index i
RECURSIVE FirstMessage(_, _, _)
FirstMessage(translation, languages, i) ==
  IF i > Len(languages) THEN <<>>
  ELSE IF EntryGet(translation, languages[i]) # <<>>
  THEN EntryGet(translation, languages[i])
  ELSE FirstMessage(translation, languages, i + 1)

NoKey == <<>>

Diag(kind, key, language) == [kind |-> kind, key |-> key, language |-> language]

\* An extraction that emits no diagnostic
ExtractTemplateSilent(translation, languages) ==
  LET string == FirstMessage(translation, languages, 1)
  IN [template |-> IF string = <<>> THEN EmptyTemplate ELSE ParseMessage(string),
      diags |-> <<>>]

\* extractTemplate: the template and the diagnostics emitted
ExtractTemplate(translation, languages) ==
  LET string == FirstMessage(translation, languages, 1)
  IN IF string = <<>>
     THEN [template |-> EmptyTemplate,
           diags |-> <<Diag("missing-default-language", NoKey, languages[Len(languages)])>>]
     ELSE [template |-> ParseMessage(string), diags |-> <<>>]

(***************************************************************************)
(* Parameter values and numbers.  A JavaScript number is kept in tenths    *)
(* (1.5 is 15), NaN apart; a parameter value is a number, a string, null   *)
(* or undefined ("null"), or some other object ("object").                 *)
(***************************************************************************)
Undefined == <<"undefined">>   \* the value undefined where a string is expected

NumberV(tenths) == [t |-> "number", num |-> tenths, nan |-> FALSE, str |-> <<>>]
NaNV == [t |-> "number", num |-> 0, nan |-> TRUE, str |-> <<>>]
StringV(s) == [t |-> "string", num |-> 0, nan |-> FALSE, str |-> s]
NullV == [t |-> "null", num |-> 0, nan |-> FALSE, str |-> <<>>]
ObjectV == [t |-> "object", num |-> 0, nan |-> FALSE, str |-> <<>>]

Digits == <<"0", "1", "2", "3", "4", "5", "6", "7", "8", "9">>
IsDigit(c) == \E d \in 1..10 : Digits[d] = c
DigitValue(c) == (CHOOSE d \in 1..10 : Digits[d] = c) - 1

\* The decimal digits of a natural number
RECURSIVE DigitsOf(_)
DigitsOf(n) ==
  IF n < 10 THEN <<Digits[n + 1]>> ELSE Append(DigitsOf(n \div 10), Digits[(n % 10) + 1])

\* The value of a string of digits
RECURSIVE ValueOfDigits(_)
ValueOfDigits(ds) ==
  IF ds = <<>> THEN 0
  ELSE 10 * ValueOfDigits(SubSeq(ds, 1, Len(ds) - 1)) + DigitValue(ds[Len(ds)])

\* The length of the longest prefix of digits
RECURSIVE DigitPrefix(_)
DigitPrefix(s) ==
  IF s # <<>> /\ IsDigit(Head(s)) THEN 1 + DigitPrefix(Tail(s)) ELSE 0

\* Number(string), the StringToNumber conversion: white space is trimmed,
\* the empty string is 0, a decimal literal with an optional sign is its
\* value, anything else is NaN.  Literals have at most one fractional digit.
StringToNumber(s) ==
  LET t == Trim(s)
      signed == t # <<>> /\ Head(t) \in {"-", "+"}
      body == IF signed THEN Tail(t) ELSE t
      sign == IF signed /\ Head(t) = "-" THEN -1 ELSE 1
      ni == DigitPrefix(body)
      rest == SubSeq(body, ni + 1, Len(body))
      frac == IF rest = <<>> THEN <<>> ELSE Tail(rest)
      wellFormed == /\ rest = <<>> \/ Head(rest) = "."
                    /\ DigitPrefix(frac) = Len(frac)
                    /\ Len(frac) <= 1
                    /\ ni + Len(frac) > 0
  IN IF t = <<>> THEN NumberV(0)
     ELSE IF wellFormed
     THEN NumberV(sign * (10 * ValueOfDigits(SubSeq(body, 1, ni)) + ValueOfDigits(frac)))
     ELSE NaNV

\* Intl.NumberFormat(locale, {}).format(value): the decimal separator is
\* the locale's (a comma in German, a point in English)
FormatNumber(loc, v) ==
  IF v.nan THEN <<"N", "a", "N">>
  ELSE LET abs == IF v.num < 0 THEN -v.num ELSE v.num
           int == DigitsOf(abs \div 10)
           sep == IF loc.language = "de" THEN "," ELSE "."
           frac == IF abs % 10 = 0 THEN <<>> ELSE <<sep, Digits[(abs % 10) + 1]>>
       IN (IF v.num < 0 THEN <<"-">> ELSE <<>>) \o int \o frac

\* String(value) of an object that is no string and no number
ObjectString == <<"[", "o", "b", "j", "e", "c", "t", " ", "O", "b", "j", "e", "c", "t", "]">>

(***************************************************************************)
(* replaceParams                                                           *)
(***************************************************************************)
Returned(value) == [kind |-> "return", value |-> value, error |-> ""]
Thrown(error) == [kind |-> "throw", value |-> <<>>, error |-> error]

NameN == <<"n">>

\* params[name]: the value of the entry of that name, undefined without one
ParamGet(params, name) ==
  IF \E i \in 1..Len(params) : params[i].name = name
  THEN params[CHOOSE i \in 1..Len(params) : params[i].name = name].value
  ELSE NullV

\* A merge in which the argument n replaces the n of params
MergeParamsArgumentWins(n, params) ==
  <<[name |-> NameN, value |-> n]>> \o SelectSeq(params, LAMBDA e : e.name # NameN)

\* Object.assign({ n }, params): n comes first and keeps its place when
\* params has an n of its own, whose value replaces it
MergeParams(n, params) ==
  LET rest == SelectSeq(params, LAMBDA e : e.name # NameN)
  IN <<[name |-> NameN, value |-> IF \E i \in 1..Len(params) : params[i].name = NameN
                                   THEN ParamGet(params, NameN) ELSE n]>> \o rest

\* A selection that takes the string n as it is, without Number(n)
SelectVariantNoCoercion(template, params) ==
  LET n == ParamGet(params, NameN)
  IN IF n.t = "number" /\ ~n.nan /\ n.num = 0 THEN template.zero
     ELSE IF n.t = "number" /\ ~n.nan /\ n.num = 10 THEN template.singular
     ELSE template.plural

\* replaceParams, lines 703-706: the variant for the parameter n
SelectVariant(template, params) ==
  LET pn == ParamGet(params, NameN)
      n == IF pn.t = "string" THEN StringToNumber(pn.str) ELSE pn
  IN IF n.t = "number" /\ ~n.nan /\ n.num = 0 THEN template.zero
     ELSE IF n.t = "number" /\ ~n.nan /\ n.num = 10 THEN template.singular
     ELSE template.plural

\* A text that is String(value) for a number, whatever the locale
ValueStringUnformatted(loc, value) ==
  IF value.t = "number" THEN FormatNumber([language |-> "en", region |-> ""], value)
  ELSE IF value.t = "string" THEN value.str
  ELSE IF value.t = "object" THEN ObjectString
  ELSE <<>>

\* replaceParams, lines 710-713: the text a value is replaced with
ValueString(loc, value) ==
  IF value.t = "number" THEN FormatNumber(loc, value)
  ELSE IF value.t = "string" THEN value.str
  ELSE IF value.t = "object" THEN ObjectString
  ELSE <<>>

\* The letters of the model, for the `i` flag of the expression
UpperCase == <<"A", "N", "X">>
LowerCase == <<"a", "n", "x">>
Lower(c) ==
  IF \E k \in 1..Len(UpperCase) : UpperCase[k] = c
  THEN LowerCase[CHOOSE k \in 1..Len(UpperCase) : UpperCase[k] = c]
  ELSE c

\* new RegExp(`(.|^)({\\s*${prop}\\s*})`, 'gi') compiles: the name is part of
\* the pattern, and a name with an opening parenthesis leaves a group open
RegExpCompiles(prop) == \A k \in 1..Len(prop) : prop[k] # "("

\* One character of the name, as a pattern, against one character: a point
\* matches any character, a letter matches itself in either case
PatternChar(pc, c) == pc = "." \/ Lower(pc) = Lower(c)

\* The name, as a pattern, matches s at index a
PropAt(s, a, prop) ==
  /\ a + Len(prop) - 1 <= Len(s)
  /\ \A k \in 1..Len(prop) : PatternChar(prop[k], s[a + k - 1])

\* The length of the run of white space of s at index a
RECURSIVE SpacesAt(_, _)
SpacesAt(s, a) ==
  IF a <= Len(s) /\ s[a] = SP THEN 1 + SpacesAt(s, a + 1) ELSE 0

\* ({\s*prop\s*}) matched at index j: the index after the match, or 0.
\* The first \s* takes the most white space it can first.
TokenEnd(s, j, prop) ==
  IF j > Len(s) \/ s[j] # "{" THEN 0
  ELSE LET ends == [k \in 0..SpacesAt(s, j + 1) |->
                      LET a == j + 1 + k + Len(prop)
                          b == a + SpacesAt(s, a)
                      IN IF PropAt(s, j + 1 + k, prop) /\ b <= Len(s) /\ s[b] = "}"
                         THEN b + 1 ELSE 0]
           ok == {k \in DOMAIN ends : ends[k] # 0}
       IN IF ok = {} THEN 0 ELSE ends[CHOOSE k \in ok : \A l \in ok : l <= k]

\* The expression matched at index i: (.|^) tries a character first, then
\* the start of the string
MatchAt(s, i, prop) ==
  LET afterChar == IF i <= Len(s) THEN TokenEnd(s, i + 1, prop) ELSE 0
      atStart == IF i = 1 THEN TokenEnd(s, 1, prop) ELSE 0
  IN IF afterChar # 0 THEN [end |-> afterChar, before |-> <<s[i]>>, token |-> i + 1]
     ELSE IF atStart # 0 THEN [end |-> atStart, before |-> <<>>, token |-> 1]
     ELSE [end |-> 0, before |-> <<>>, token |-> 0]

\* formatted.replaceAll(expr, callback), from index i on
RECURSIVE ReplaceAll(_, _, _, _)
ReplaceAll(s, i, prop, string) ==
  IF i > Len(s) THEN <<>>
  ELSE LET m == MatchAt(s, i, prop)
       IN IF m.end = 0 THEN <<s[i]>> \o ReplaceAll(s, i + 1, prop, string)
          ELSE (IF m.before = <<BS>> THEN SubSeq(s, m.token, m.end - 1)
                ELSE m.before \o string)
               \o ReplaceAll(s, m.end, prop, string)

\* replaceParams, lines 709-723: the loop over the entries from index i,
\* then the trim
RECURSIVE ReplaceLoop(_, _, _, _)
ReplaceLoop(formatted, params, i, loc) ==
  IF i > Len(params)
  THEN IF formatted = Undefined THEN Thrown("TypeError") ELSE Returned(Trim(formatted))
  ELSE IF ~RegExpCompiles(params[i].name) THEN Thrown("SyntaxError")
  ELSE IF formatted = Undefined THEN Thrown("TypeError")
  ELSE ReplaceLoop(ReplaceAll(formatted, 1, params[i].name, ValueString(loc, params[i].value)),
                   params, i + 1, loc)

\* replaceParams
ReplaceParams(template, params, loc) ==
  ReplaceLoop(SelectVariant(template, params), params, 1, loc)

(***************************************************************************)
(* Locales and the order of the languages                                  *)
(***************************************************************************)
NoRegion == ""   \* locale.region of a locale without a region (undefined)

\* An Intl.Locale: its language and its region
Locale(language, region) == [language |-> language, region |-> region]

\* `${language}-${region}`
Tag(language, region) == language \o "-" \o region

\* makeTranslator, lines 489-491: the normalized default language
NormalizedLanguage(loc) ==
  IF loc.region # NoRegion THEN Tag(loc.language, loc.region) ELSE loc.language

\* An order that tries the default language first
LanguageOrderDefaultFirst(loc, default) ==
  LET order0 == <<loc.language>>
      order1 == IF loc.region # NoRegion
                THEN <<Tag(loc.language, loc.region)>> \o order0 ELSE order0
  IN IF loc.language # default THEN <<default>> \o order1 ELSE order1

\* makeTranslator, lines 537-543: the computed `languages`
LanguageOrder(loc, default) ==
  LET order0 == <<loc.language>>
      order1 == IF loc.region # NoRegion
                THEN <<Tag(loc.language, loc.region)>> \o order0 ELSE order0
  IN IF loc.language # default THEN Append(order1, default) ELSE order1

\* { ...locale }: the own enumerable properties of an Intl.Locale, as the
\* options of a new locale.  language and region are accessors of
\* Intl.Locale.prototype, so the copy has no property and no region.
SpreadLocale(loc) == [region |-> NoRegion]

\* new Intl.Locale(language, options): options.region, when defined, is
\* the region; the tag given here is a bare language
NewLocale(language, options) == Locale(language, options.region)

\* set language(value), line 560
SetLanguageValue(loc, value) == NewLocale(value, SpreadLocale(loc))

\* set region(value), line 568; the empty region stands for a falsy value,
\* which `value || undefined` makes undefined
SetRegionValue(loc, value) ==
  NewLocale(loc.language, [SpreadLocale(loc) EXCEPT !.region = value])

(***************************************************************************)
(* getTemplate and the cache                                               *)
(***************************************************************************)
TableId == "translations"   \* the identity of the translator's table object

\* The names every plain object inherits from Object.prototype, of which
\* the model has one
ValueOfKey == <<"v", "a", "l", "u", "e", "O", "f">>
ObjectPrototypeKeys == {ValueOfKey}

\* A member of Object.prototype read as a template: it has no zero,
\* singular or plural
InheritedTemplate == [zero |-> Undefined, singular |-> Undefined, plural |-> Undefined]

\* A member of Object.prototype read as a translation: it has no language
InheritedTranslation == <<>>

\* The result of getTemplate: thrown or not, the template, the caches and
\* the diagnostics
Got(thrown, template, newCaches, newDiags) ==
  [thrown |-> thrown, template |-> template, caches |-> newCaches, diags |-> newDiags]

\* caches.get(translations), created when missing (lines 632-633), with the
\* cache of the language created when missing (lines 636-637)
WithLanguageCache(cs, language) ==
  LET cache == IF TableId \in DOMAIN cs THEN cs[TableId] ELSE <<>>
      languageCache == IF language \in DOMAIN cache THEN cache[language] ELSE <<>>
  IN (TableId :> ((language :> languageCache) @@ cache)) @@ cs

\* translations[translation]: the entry of the key, a member of
\* Object.prototype for a key that names one, or undefined (found is false)
TableGet(table, key) ==
  IF key \in DOMAIN table THEN [found |-> TRUE, object |-> table[key]]
  ELSE IF key \in ObjectPrototypeKeys THEN [found |-> TRUE, object |-> InheritedTranslation]
  ELSE [found |-> FALSE, object |-> <<>>]

\* getTemplate, lines 642-647: the template of a key that is not cached
ResolveKey(table, key, languages) ==
  LET got == TableGet(table, key)
      object == IF got.found THEN got.object ELSE (languages[Len(languages)] :> key)
      x == ExtractTemplate(object, languages)
  IN [template |-> x.template,
      diags |-> (IF got.found THEN <<>> ELSE <<Diag("missing-key", key, "")>>) \o x.diags]

\* A lookup that creates the cache of the language for an inline entry too
LookupTemplateCachingInline(cs, table, isKey, key, entry, languages) ==
  LET x == IF isKey THEN ResolveKey(table, key, languages)
           ELSE ExtractTemplate(entry, languages)
  IN Got(FALSE, x.template, WithLanguageCache(cs, languages[1]), x.diags)

\* getTemplate, lines 630-654, for a translation that is not falsy.  Both
\* `languageCache[translation]` and `translations[translation]` read plain
\* objects, so a key that names a member of Object.prototype finds that
\* member.
LookupTemplate(cs, table, isKey, key, entry, languages) ==
  IF ~isKey THEN
    LET x == ExtractTemplate(entry, languages)
    IN Got(FALSE, x.template, cs, x.diags)
  ELSE
    LET cs1 == WithLanguageCache(cs, languages[1])
        languageCache == cs1[TableId][languages[1]]
    IN IF key \in DOMAIN languageCache THEN Got(FALSE, languageCache[key], cs1, <<>>)
       ELSE IF key \in ObjectPrototypeKeys THEN Got(FALSE, InheritedTemplate, cs1, <<>>)
       ELSE LET r == ResolveKey(table, key, languages)
            IN Got(FALSE, r.template,
                   (TableId :> ((languages[1] :> ((key :> r.template) @@ languageCache))
                                @@ cs1[TableId])) @@ cs1,
                   r.diags)

\* A lookup that creates the caches before it rejects the empty key
GetTemplateLateCheck(cs, table, isKey, key, entry, languages) ==
  IF isKey /\ key = <<>>
  THEN Got(TRUE, EmptyTemplate, WithLanguageCache(cs, languages[1]), <<>>)
  ELSE LookupTemplate(cs, table, isKey, key, entry, languages)

\* getTemplate, lines 623-655.  `translation` is the key (isKey) or the
\* inline entry; an inline entry is an object and never falsy.
GetTemplate(cs, table, isKey, key, entry, languages) ==
  IF isKey /\ key = <<>> THEN Got(TRUE, EmptyTemplate, cs, <<>>)
  ELSE LookupTemplate(cs, table, isKey, key, entry, languages)

\* The number of objects the caches hold: language caches and templates
RECURSIVE SumOver(_, _)
SumOver(f, S) ==
  IF S = {} THEN 0
  ELSE LET x == CHOOSE y \in S : TRUE IN f[x] + SumOver(f, S \ {x})

CachedCount(cs) ==
  IF TableId \notin DOMAIN cs THEN 0
  ELSE LET cache == cs[TableId]
       IN Cardinality(DOMAIN cache)
          + SumOver([l \in DOMAIN cache |-> Cardinality(DOMAIN cache[l])], DOMAIN cache)

(***************************************************************************)
(* The formatters n and d.  Intl.NumberFormat and Intl.DateTimeFormat are   *)
(* outside the repository: the model keeps of them that the text depends   *)
(* on the locale and the options, and that they throw on options they      *)
(* reject and on a date that is not a time.                                *)
(***************************************************************************)
NoOptions == "undefined"

\* numberFormats, lines 519-529: the currencies and `default`
NumberFormats == ("default" :> "plain") @@ ("EUR" :> "currency")

\* dateTimeFormats, lines 494-517
DateTimeFormats == ("default" :> "medium") @@ ("date" :> "mediumDate") @@ ("time" :> "mediumTime")

\* The aliases that name a member of Object.prototype, of which the model
\* has one: numberFormats and dateTimeFormats are plain objects
InheritedAliases == {"valueOf"}

\* formats[format] for an alias, the options themselves otherwise.  An
\* alias that names a member of Object.prototype finds that member, a
\* function, which is truthy and has none of the options' properties.
OptionsOf(formats, format) ==
  IF ~format.isAlias THEN format.options
  ELSE IF format.alias \in DOMAIN formats THEN formats[format.alias]
  ELSE IF format.alias \in InheritedAliases THEN "inherited"
  ELSE NoOptions

\* new Intl.NumberFormat(locale, options).format(value)
NumberFormatFormat(loc, options, value) ==
  IF options = "invalid" THEN Thrown("TypeError")
  ELSE IF options = "currency"
  THEN Returned(IF loc.language = "de" THEN FormatNumber(loc, value) \o <<SP, "E">>
                ELSE <<"E">> \o FormatNumber(loc, value))
  ELSE Returned(FormatNumber(loc, value))

\* An n that formats before it looks at the value
FormatNFormattingNull(loc, value, format) ==
  LET options == OptionsOf(NumberFormats, format)
  IN [outcome |-> IF options = "invalid" THEN Thrown("TypeError") ELSE Returned(<<>>),
      diags |-> IF options = NoOptions
                THEN <<Diag("unknown-number-format", NoKey, format.alias)>> ELSE <<>>]

\* n(value, format), lines 571-578
FormatN(loc, value, format) ==
  IF value.t = "null" THEN [outcome |-> Returned(<<>>), diags |-> <<>>]
  ELSE LET options == OptionsOf(NumberFormats, format)
       IN [outcome |-> NumberFormatFormat(loc, options, value),
           diags |-> IF options = NoOptions
                     THEN <<Diag("unknown-number-format", NoKey, format.alias)>> ELSE <<>>]

\* new Intl.DateTimeFormat(locale, options).format(new Date(input)): a
\* string that is no date makes the Invalid Date, which format rejects
DateTimeFormatFormat(loc, options, input) ==
  IF options = "invalid" THEN Thrown("RangeError")
  ELSE IF input = "garbage" THEN Thrown("RangeError")
  ELSE Returned(<<IF loc.language = "de" THEN "d" ELSE "e",
                  IF options = "mediumDate" THEN "D"
                  ELSE IF options = "mediumTime" THEN "T" ELSE "M">>)

\* d(input, format), lines 590-598; the input is null, the empty string
\* ("empty"), a date ("date") or a string that is no date ("garbage")
FormatD(loc, input, format) ==
  IF input \in {"null", "empty"} THEN [outcome |-> Returned(<<>>), diags |-> <<>>]
  ELSE LET options == OptionsOf(DateTimeFormats, format)
       IN [outcome |-> DateTimeFormatFormat(loc, options, input),
           diags |-> IF options = NoOptions
                     THEN <<Diag("unknown-date-format", NoKey, format.alias)>> ELSE <<>>]

(***************************************************************************)
(* checkLocale                                                             *)
(***************************************************************************)
\* The codes Intl.DisplayNames has a name for
KnownLanguages == {"en", "de"}
KnownRegions == {"DE"}

\* A checkLocale that stops after the language
CheckLocaleLanguageOnly(loc) ==
  IF loc.language \notin KnownLanguages
  THEN <<Diag("unknown-language", NoKey, loc.language)>> ELSE <<>>

\* checkLocale, lines 457-479: the diagnostics for a locale
CheckLocaleDiags(loc) ==
  (IF loc.language \notin KnownLanguages
   THEN <<Diag("unknown-language", NoKey, loc.language)>> ELSE <<>>)
  \o (IF loc.region # NoRegion /\ loc.region \notin KnownRegions
      THEN <<Diag("unknown-region", NoKey, loc.region)>> ELSE <<>>)

(***************************************************************************)
(* The inputs of the model                                                 *)
(***************************************************************************)
LanguageCodes == {"en", "de"}
RegionCodes == {"DE"}
Locales == {Locale(l, r) : l \in LanguageCodes, r \in RegionCodes \cup {NoRegion}}

\* options.defaultLanguage: a language, or a language with a region
DefaultLocales == {Locale("en", NoRegion), Locale("de", "DE")}

KeyHello == <<"h">>
KeyCats == <<"c">>
KeyMissing == <<"m">>
KeyPiped == <<"p", "|", "q">>
EmptyKey == <<>>

\* options.translations.  The German message of `c` is the empty string.
Table ==
  (KeyHello :> (("en" :> <<"H", "i">>) @@ ("de" :> <<"H", "a">>) @@ ("de-DE" :> <<"H", "D">>)))
  @@ (KeyCats :> (("en" :> <<SP, "z", PIPE, "s", SP, PIPE, "{", "n", "}", "p">>)
                  @@ ("de" :> <<>>)))

Keys == {KeyHello, KeyCats, KeyMissing, KeyPiped, ValueOfKey, EmptyKey}

\* The calls of tc with a key: the key and the number
PluralCalls == {<<KeyCats, NumberV(0)>>, <<KeyCats, NumberV(20)>>, <<EmptyKey, NumberV(0)>>}

\* Inline translations
InlineEntries ==
  { ("de" :> <<"K", "|", "{", "n", "}", "L">>),
    (("en" :> <<"o", "n", "e", PIPE, "{", "N", "}">>) @@ ("de" :> <<>>)) }

Param(name, value) == [name |-> name, value |-> value]

\* The params of a call: none, and a name with a parenthesis
ParamChoices ==
  { <<>>,
    <<Param(<<"(">>, StringV(<<"A">>))>> }

PluralNumbers == {NumberV(0), NumberV(20)}

Alias(name) == [isAlias |-> TRUE, alias |-> name, options |-> NoOptions]
Options(o) == [isAlias |-> FALSE, alias |-> "", options |-> o]

\* The calls of n and of d: the value and the format
NumberCalls ==
  { <<NullV, Alias("default")>>, <<NumberV(15), Alias("default")>>, <<NumberV(15), Alias("EUR")>>,
    <<NumberV(15), Alias("bogus")>>, <<NumberV(15), Options("invalid")>>,
    <<NullV, Alias("bogus")>>, <<NullV, Options("invalid")>>, <<NumberV(15), Alias("valueOf")>> }
DateCalls ==
  { <<"null", Alias("default")>>, <<"empty", Alias("default")>>, <<"date", Alias("date")>>,
    <<"date", Alias("bogus")>>, <<"garbage", Alias("default")>>,
    <<"null", Alias("bogus")>>, <<"empty", Options("invalid")>>, <<"date", Alias("valueOf")>> }

(***************************************************************************)
(* The translator: its state after makeTranslator and its operations       *)
(***************************************************************************)
NoFormat == [isAlias |-> TRUE, alias |-> "", options |-> NoOptions]

\* The record of an operation, with the fields an operation does not use
BaseCall ==
  [op |-> "makeTranslator", isKey |-> FALSE, key |-> <<>>, entry |-> <<>>,
   n |-> NullV, params |-> <<>>, value |-> NullV, input |-> "", format |-> NoFormat,
   outcome |-> Returned(<<>>), template |-> EmptyTemplate]

NoArg == <<>>
NoRet == [done |-> FALSE]

Init ==
  /\ \E d \in DefaultLocales :
       /\ defaultLanguage = NormalizedLanguage(d)
       /\ locale = d
       /\ diags = CheckLocaleDiags(d)
  /\ translations = Table
  /\ caches = <<>>
  /\ call = BaseCall
  /\ arg = NoArg
  /\ ret = NoRet

\* set locale(value), lines 551-553
SetLocale(value) ==
  /\ locale' = value
  /\ call' = [BaseCall EXCEPT !.op = "setLocale"]
  /\ diags' = <<>>
  /\ UNCHANGED <<defaultLanguage, translations, caches, arg, ret>>

\* set language(value), lines 559-561
SetLanguage(value) ==
  /\ locale' = SetLanguageValue(locale, value)
  /\ call' = [BaseCall EXCEPT !.op = "setLanguage"]
  /\ diags' = <<>>
  /\ UNCHANGED <<defaultLanguage, translations, caches, arg, ret>>

\* set region(value), lines 567-569
SetRegion(value) ==
  /\ locale' = SetRegionValue(locale, value)
  /\ call' = [BaseCall EXCEPT !.op = "setRegion"]
  /\ diags' = <<>>
  /\ UNCHANGED <<defaultLanguage, translations, caches, arg, ret>>

\* A tc that selects the variant by its argument n and shows the merged n
TcReturnSelectingByArgument(template, n, params, loc) ==
  ReplaceLoop(SelectVariant(template, <<[name |-> NameN, value |-> n]>>),
              MergeParams(n, params), 1, loc)

\* tc, lines 586-587: the string for the template.  The format is the
\* default number format of the current locale.
TcReturn(template, n, params, loc) ==
  ReplaceParams(template, MergeParams(n, params), loc)

\* tc, lines 586-588, with the result g of getTemplate: the outcome, the
\* template, and the caches and diagnostics getTemplate leaves
TcWith(g, n, params, loc) ==
  [outcome |-> IF g.thrown THEN Thrown("No translation key specified")
               ELSE TcReturn(g.template, n, params, loc),
   template |-> g.template, caches |-> g.caches, diags |-> g.diags]

\* tc(translation, n, params), lines 584-588
Tc(cs, table, loc, default, isKey, key, entry, n, params) ==
  TcWith(GetTemplate(cs, table, isKey, key, entry, LanguageOrder(loc, default)),
         n, params, loc)

\* A t that passes no number to tc
TWithoutNumber(cs, table, loc, default, isKey, key, entry, params) ==
  Tc(cs, table, loc, default, isKey, key, entry, NullV, params)

\* t(translation, params), lines 580-582: tc with the number 1
T(cs, table, loc, default, isKey, key, entry, params) ==
  Tc(cs, table, loc, default, isKey, key, entry, NumberV(10), params)

\* The effect on the translator of a call of t or tc with the result g
Called(op, isKey, key, entry, n, params, g) ==
  /\ CachedCount(g.caches) <= MaxCached
  /\ caches' = g.caches
  /\ diags' = g.diags
  /\ call' = [BaseCall EXCEPT !.op = op, !.isKey = isKey, !.key = key, !.entry = entry,
                              !.n = n, !.params = params, !.outcome = g.outcome,
                              !.template = g.template]
  /\ UNCHANGED <<defaultLanguage, translations, locale, arg, ret>>

\* tc(translation, n, params), lines 584-588, called as `op`
Translate(op, isKey, key, entry, n, params) ==
  Called(op, isKey, key, entry, n, params,
         Tc(caches, translations, locale, defaultLanguage, isKey, key, entry, n, params))

\* t(key, params), lines 580-582
TKey(key, params) == Translate("t", TRUE, key, <<>>, NumberV(10), params)

\* t(translation, params) with an inline translation
TInline(entry, params) == Translate("t", FALSE, <<>>, entry, NumberV(10), params)

\* tc(key, n, params)
TCKey(key, n, params) == Translate("tc", TRUE, key, <<>>, n, params)

\* tc(translation, n, params) with an inline translation
TCInline(entry, n, params) == Translate("tc", FALSE, <<>>, entry, n, params)

\* n(value, format)
N(value, format) ==
  LET r == FormatN(locale, value, format)
  IN /\ diags' = r.diags
     /\ call' = [BaseCall EXCEPT !.op = "n", !.value = value, !.format = format,
                                 !.outcome = r.outcome]
     /\ UNCHANGED <<defaultLanguage, translations, locale, caches, arg, ret>>

\* d(input, format)
D(input, format) ==
  LET r == FormatD(locale, input, format)
  IN /\ diags' = r.diags
     /\ call' = [BaseCall EXCEPT !.op = "d", !.input = input, !.format = format,
                                 !.outcome = r.outcome]
     /\ UNCHANGED <<defaultLanguage, translations, locale, caches, arg, ret>>

Next ==
  \/ \E value \in Locales : SetLocale(value)
  \/ \E value \in LanguageCodes : SetLanguage(value)
  \/ \E value \in RegionCodes \cup {NoRegion} : SetRegion(value)
  \/ \E key \in Keys, params \in ParamChoices : TKey(key, params)
  \/ \E entry \in InlineEntries, params \in ParamChoices : TInline(entry, params)
  \/ \E c \in PluralCalls : TCKey(c[1], c[2], <<>>)
  \/ \E entry \in InlineEntries, n \in PluralNumbers : TCInline(entry, n, <<>>)
  \/ \E c \in NumberCalls : N(c[1], c[2])
  \/ \E c \in DateCalls : D(c[1], c[2])

Spec == Init /\ [][Next]_vars

(***************************************************************************)
(* extractTemplate applied on its own to every raw message of the bound    *)
(***************************************************************************)
RawMessages == SeqsUpTo({"a", SP, PIPE, BS}, MaxLen)

InitParse ==
  /\ arg \in RawMessages
  /\ ret = NoRet
  /\ defaultLanguage = "en"
  /\ locale = Locale("en", NoRegion)
  /\ translations = Table
  /\ caches = <<>>
  /\ call = BaseCall
  /\ diags = <<>>

\* extractTemplate({ en: arg }, ['en']), with the array of line 680
ParseStep ==
  /\ ~ret.done
  /\ LET x == ExtractTemplate(("en" :> arg), <<"en">>)
     IN /\ ret' = [done |-> TRUE, template |-> x.template,
                   segments |-> Split(arg), points |-> SplitPoints(arg)]
        /\ diags' = x.diags
  /\ UNCHANGED <<defaultLanguage, translations, locale, caches, call, arg>>

NextParse == ParseStep

SpecParse == InitParse /\ [][NextParse]_vars

(***************************************************************************)
(* replaceParams applied on its own                                        *)
(***************************************************************************)
PlainTemplate == [zero |-> <<"z">>, singular |-> <<"s">>, plural |-> <<"p">>]

SelectTemplates ==
  { PlainTemplate,
    [zero |-> <<"n", "o">>, singular |-> <<"{", "n", "}", "x">>,
     plural |-> <<"{", SP, "N", "}", "y", BS, "{", "n", "}">>],
    [zero |-> <<"{", "n", "}", "{", "n", "}">>, singular |-> <<>>, plural |-> <<"{", "x", "}">>],
    [zero |-> <<BS, "{", "n", "}", "a">>, singular |-> <<"{", "x", "}">>,
     plural |-> <<"a", SP, "{", "X", SP, "}", SP, "a">>] }

\* The values of the parameter n
NumbersOfN ==
  { NumberV(0), NumberV(10), NumberV(20), NumberV(-10), NumberV(15), NaNV, NullV, ObjectV,
    StringV(<<"0">>), StringV(<<"1">>), StringV(<<"2">>), StringV(<<>>), StringV(<<SP, "1", SP>>),
    StringV(<<"-", "1">>), StringV(<<"1", ".", "0">>), StringV(<<"1", ".", "5">>),
    StringV(<<"x">>) }

\* The params of replaceParams: n alone, n and x, no n, n with a name
\* that differs from it by case, with a name that is a point, and with X,
\* and n with an x whose value is a placeholder
ParamLists ==
  {<<Param(NameN, v)>> : v \in NumbersOfN}
  \cup {<<Param(NameN, v), Param(<<"x">>, StringV(<<"A">>))>> : v \in {NumberV(0), StringV(<<"1">>)}}
  \cup {<<>>, <<Param(<<"x">>, NumberV(15))>>}
  \cup {<<Param(NameN, NumberV(0)), Param(<<"N">>, StringV(<<"A">>))>>,
        <<Param(NameN, NumberV(10)), Param(<<".">>, StringV(<<"A">>))>>,
        <<Param(NameN, NumberV(20)), Param(<<"X">>, NullV)>>}
  \cup {<<Param(NameN, NumberV(10)), Param(<<"x">>, StringV(<<"{", "n", "}">>))>>}

InitParams ==
  /\ arg \in [template : SelectTemplates, params : ParamLists,
              loc : {Locale("en", NoRegion), Locale("de", "DE")}]
  /\ ret = NoRet
  /\ defaultLanguage = "en"
  /\ locale = Locale("en", NoRegion)
  /\ translations = Table
  /\ caches = <<>>
  /\ call = BaseCall
  /\ diags = <<>>

\* The params listed in the opposite order
Reverse(params) == [i \in 1..Len(params) |-> params[Len(params) + 1 - i]]

\* replaceParams(template, params, format), with the variant of line 704,
\* and replaceParams of the same params listed in the opposite order
ReplaceStep ==
  /\ ~ret.done
  /\ ret' = [done |-> TRUE, selected |-> SelectVariant(arg.template, arg.params),
             outcome |-> ReplaceParams(arg.template, arg.params, arg.loc),
             reversed |-> ReplaceParams(arg.template, Reverse(arg.params), arg.loc)]
  /\ UNCHANGED <<defaultLanguage, translations, locale, caches, call, diags, arg>>

NextParams == ReplaceStep

SpecParams == InitParams /\ [][NextParams]_vars

(***************************************************************************)
(* t and tc applied on their own, on a translator that has cached nothing  *)
(***************************************************************************)
\* An inline translation whose variants all show n, and one that shows x
EntryShowingN == ("en" :> <<"z", "{", "n", "}", PIPE, "s", "{", "n", "}", PIPE, "p", "{", "n", "}">>)
EntryShowingX == ("en" :> <<"a", "{", "x", "}">>)

\* The translations of the calls: the inline ones and two keys of the table
TcTranslations ==
  {[isKey |-> FALSE, key |-> <<>>, entry |-> e] : e \in {EntryShowingN, EntryShowingX}}
  \cup {[isKey |-> TRUE, key |-> k, entry |-> <<>>] : k \in {KeyHello, KeyCats}}

\* The argument n of tc
TcNumbers == {NumberV(0), NumberV(10), NumberV(20), NumberV(15)}

\* The params of the calls: none, an n of their own, an x
TcParams ==
  { <<>>, <<Param(NameN, NumberV(20))>>, <<Param(NameN, NumberV(0))>>,
    <<Param(NameN, StringV(<<"1">>))>>, <<Param(NameN, NullV)>>,
    <<Param(<<"x">>, StringV(<<"A">>))>>, <<Param(<<"x">>, NumberV(15))>>,
    <<Param(<<"x">>, NullV)>> }

InitTc ==
  /\ arg \in [translation : TcTranslations, n : TcNumbers, params : TcParams,
              loc : {Locale("en", NoRegion), Locale("de", "DE")}]
  /\ ret = NoRet
  /\ defaultLanguage = "en"
  /\ locale = Locale("en", NoRegion)
  /\ translations = Table
  /\ caches = <<>>
  /\ call = BaseCall
  /\ diags = <<>>

\* tc(x, n, params) and t(x, params) on a fresh translator of the locale
TcOutcome(x, loc, n, params) ==
  Tc(<<>>, Table, loc, "en", x.isKey, x.key, x.entry, n, params).outcome
TOutcome(x, loc, params) ==
  T(<<>>, Table, loc, "en", x.isKey, x.key, x.entry, params).outcome

\* tc(x, n, params) and n(value) for the x of params, beside t(x, params),
\* tc(x, 1, params), t(x, { n }) and tc(x, n)
TcStep ==
  /\ ~ret.done
  /\ ret' = [done |-> TRUE,
             tc |-> TcOutcome(arg.translation, arg.loc, arg.n, arg.params),
             t |-> TOutcome(arg.translation, arg.loc, arg.params),
             tcOne |-> TcOutcome(arg.translation, arg.loc, NumberV(10), arg.params),
             tOfN |-> TOutcome(arg.translation, arg.loc, <<Param(NameN, arg.n)>>),
             tcOfN |-> TcOutcome(arg.translation, arg.loc, arg.n, <<>>),
             nOfX |-> FormatN(arg.loc, ParamGet(arg.params, <<"x">>), Alias("default")).outcome]
  /\ UNCHANGED <<defaultLanguage, translations, locale, caches, call, diags, arg>>

NextTc == TcStep

SpecTc == InitTc /\ [][NextTc]_vars

(***************************************************************************)
(* The watcher of the locale.  `watch(locale, checkLocale, { immediate:    *)
(* true })` of vue runs checkLocale once while makeTranslator runs, and     *)
(* from then on as a job of the scheduler: an assignment to locale.value    *)
(* queues the job unless it is queued already, and the queue is flushed in  *)
(* a microtask, after the code that assigned has run to its end.  The job   *)
(* reads the value the locale has when it runs.  `arg` is the queue.        *)
(* Codes here are well formed, so that Intl.Locale accepts them.            *)
(***************************************************************************)
WatchLanguages == {"en", "de", "xx", "qq"}
WatchRegions == {"DE", "ZZ"}
WatchLocales == {Locale(l, r) : l \in WatchLanguages, r \in WatchRegions \cup {NoRegion}}
WatchDefaults ==
  {Locale("en", NoRegion), Locale("de", "DE"), Locale("xx", NoRegion), Locale("xx", "ZZ")}

CheckLocaleJob == "checkLocale"
NoJobs == <<>>

\* queueJob: a job is queued once
QueueJob(queue, job) ==
  IF \E i \in 1..Len(queue) : queue[i] = job THEN queue ELSE Append(queue, job)

\* makeTranslator, lines 532-533: the immediate run of the watcher
InitWatch ==
  /\ \E d \in WatchDefaults :
       /\ defaultLanguage = NormalizedLanguage(d)
       /\ locale = d
       /\ diags = CheckLocaleDiags(d)
  /\ translations = Table
  /\ caches = <<>>
  /\ call = BaseCall
  /\ arg = NoJobs
  /\ ret = NoRet

\* An assignment to locale.value, line 552, which every setter ends in
AssignLocale(op, input, value) ==
  /\ locale' = value
  /\ arg' = QueueJob(arg, CheckLocaleJob)
  /\ call' = [BaseCall EXCEPT !.op = op, !.input = input]
  /\ diags' = <<>>
  /\ UNCHANGED <<defaultLanguage, translations, caches, ret>>

WatchSetLocale(value) ==
  AssignLocale("setLocale", NormalizedLanguage(value), value)

WatchSetLanguage(value) ==
  AssignLocale("setLanguage", value, SetLanguageValue(locale, value))

WatchSetRegion(value) ==
  AssignLocale("setRegion", value, SetRegionValue(locale, value))

\* The flush of the scheduler: the watcher's job runs checkLocale on the
\* value of the locale
FlushJobs ==
  /\ arg # NoJobs
  /\ arg' = NoJobs
  /\ diags' = CheckLocaleDiags(locale)
  /\ call' = [BaseCall EXCEPT !.op = CheckLocaleJob]
  /\ UNCHANGED <<defaultLanguage, translations, locale, caches, ret>>

NextWatch ==
  \/ \E value \in WatchLocales : WatchSetLocale(value)
  \/ \E value \in WatchLanguages : WatchSetLanguage(value)
  \/ \E value \in WatchRegions \cup {NoRegion} : WatchSetRegion(value)
  \/ FlushJobs

\* The scheduler flushes a queue that has a job
SpecWatch == InitWatch /\ [][NextWatch]_vars /\ WF_vars(FlushJobs)

(***************************************************************************)
(* Two translators and the translations object of the caller.  `arg` is    *)
(* the object the caller passed to makeTranslator, which the caller may     *)
(* change afterwards; `translations` is the table of this translator and   *)
(* `ret` is a second translator, made later from the same object.  Each    *)
(* translator has its own structuredClone of the object, and `caches`, a   *)
(* WeakMap of the module, is keyed by the identity of the clone.           *)
(***************************************************************************)
OtherTableId == "other translations"   \* the identity of the second translator's table

\* structuredClone(options.translations), line 493: a copy, whose identity
\* and later content are its own
StructuredClone(object) == object

\* Another translator reads the table `own`, its clone, not the object
\* `passed`
TableOfPassed(own, passed) == passed

\* The table a translator reads, line 585: `own`, its clone of line 493,
\* whatever the object `passed` to makeTranslator has become
TableOf(own, passed) == own

\* caches.get(translations), line 632, for the table of identity `id`, as
\* the WeakMap of a module with that table alone
ViewOf(cs, id) == IF id \in DOMAIN cs THEN (TableId :> cs[id]) ELSE <<>>

\* The WeakMap after getTemplate left `view` for the table of identity `id`
StoreAs(cs, id, view) == IF TableId \in DOMAIN view THEN (id :> view[TableId]) @@ cs ELSE cs

\* The objects the caller makes of the translations: a message changed, a
\* language deleted
ChangedTables ==
  { [Table EXCEPT ![KeyHello] = ("en" :> <<"X">>) @@ @],
    [Table EXCEPT ![KeyHello] = ("de" :> <<"H", "a">>)] }

SharedLocales == {Locale("en", NoRegion), Locale("de", NoRegion)}
SharedKeys == {KeyHello, KeyMissing}

InitShared ==
  /\ arg = Table
  /\ translations = StructuredClone(arg)
  /\ defaultLanguage = "en"
  /\ locale = Locale("en", NoRegion)
  /\ diags = <<>>
  /\ caches = <<>>
  /\ call = BaseCall
  /\ ret = NoRet

\* The caller changes the object it passed
ChangeOptions(object) ==
  /\ object # arg
  /\ arg' = object
  /\ call' = [BaseCall EXCEPT !.op = "changeOptions"]
  /\ diags' = <<>>
  /\ UNCHANGED <<defaultLanguage, translations, locale, caches, ret>>

\* makeTranslator({ defaultLanguage: 'de', translations }) on the object
MakeOther ==
  /\ ~ret.done
  /\ ret' = [done |-> TRUE, table |-> StructuredClone(arg), default |-> "de",
             locale |-> Locale("de", NoRegion)]
  /\ call' = [BaseCall EXCEPT !.op = "makeOther"]
  /\ diags' = <<>>
  /\ UNCHANGED <<defaultLanguage, translations, locale, caches, arg>>

\* set locale of the second translator
OtherSetLocale(value) ==
  /\ ret.done
  /\ ret' = [ret EXCEPT !.locale = value]
  /\ call' = [BaseCall EXCEPT !.op = "otherSetLocale"]
  /\ diags' = <<>>
  /\ UNCHANGED <<defaultLanguage, translations, locale, caches, arg>>

\* t(key) of the translator whose table has the identity `id`
SharedLookup(cs, id, table, loc, default, key) ==
  TcWith(GetTemplate(ViewOf(cs, id), table, TRUE, key, <<>>, LanguageOrder(loc, default)),
         NumberV(10), <<>>, loc)

\* The effect of t(key) with the result g
SharedCalled(op, id, key, g) ==
  /\ caches' = StoreAs(caches, id, g.caches)
  /\ diags' = g.diags
  /\ call' = [BaseCall EXCEPT !.op = op, !.isKey = TRUE, !.key = key, !.n = NumberV(10),
                              !.outcome = g.outcome, !.template = g.template]
  /\ UNCHANGED <<defaultLanguage, translations, locale, arg, ret>>

\* t(key) of this translator
ThisT(key) ==
  SharedCalled("t", TableId, key,
               SharedLookup(caches, TableId, TableOf(translations, arg),
                            locale, defaultLanguage, key))

\* t(key) of the second translator
OtherT(key) ==
  /\ ret.done
  /\ SharedCalled("otherT", OtherTableId, key,
                  SharedLookup(caches, OtherTableId, TableOf(ret.table, arg),
                               ret.locale, ret.default, key))

NextShared ==
  \/ \E object \in ChangedTables \cup {Table} : ChangeOptions(object)
  \/ MakeOther
  \/ \E value \in SharedLocales : OtherSetLocale(value)
  \/ \E value \in SharedLocales : SetLocale(value)
  \/ \E key \in SharedKeys : ThisT(key)
  \/ \E key \in SharedKeys : OtherT(key)

SpecShared == InitShared /\ [][NextShared]_vars

(***************************************************************************)
(* Keyed lookups in steps.  JavaScript runs tc to its end before anything  *)
(* else runs; here a lookup is cut in two, as a caller with threads would  *)
(* see it: the check (lines 632-640, with the `languages` that tc read on  *)
(* line 585) and the fill (lines 641-649), and other lookups and changes   *)
(* of the locale come between the two.  `arg` holds, for each lookup in    *)
(* flight, its place, its key, the languages it was called with and the    *)
(* template it returns.                                                    *)
(***************************************************************************)
Lookups == {1, 2}

NoLookup == [pc |-> "idle", key |-> <<>>, languages |-> <<>>, template |-> EmptyTemplate]

InitRace ==
  /\ defaultLanguage = "en"
  /\ locale = Locale("en", NoRegion)
  /\ translations = Table
  /\ caches = <<>>
  /\ diags = <<>>
  /\ call = BaseCall
  /\ arg = [t \in Lookups |-> NoLookup]
  /\ ret = NoRet

\* A fill that extracts with the languages of the locale of its own time
ExtractLanguagesOfNow(called, now) == now

\* The languages extractTemplate gets on line 647: the parameter of
\* getTemplate, the order tc `called` it with, not the order of `now`
ExtractLanguages(called, now) == called

\* Lines 585 and 632-640: tc reads the languages, getTemplate creates the
\* caches that are missing and reads the template of the key
CheckCache(t, key) ==
  LET languages == LanguageOrder(locale, defaultLanguage)
      cs1 == WithLanguageCache(caches, languages[1])
      languageCache == cs1[TableId][languages[1]]
      hit == key \in DOMAIN languageCache
  IN /\ arg[t].pc # "checked"
     /\ caches' = cs1
     /\ arg' = [arg EXCEPT ![t] = [pc |-> IF hit THEN "done" ELSE "checked", key |-> key,
                                   languages |-> languages,
                                   template |-> IF hit THEN languageCache[key]
                                                ELSE EmptyTemplate]]
     /\ call' = [BaseCall EXCEPT !.op = "checkCache", !.isKey = TRUE, !.key = key]
     /\ diags' = <<>>
     /\ UNCHANGED <<defaultLanguage, translations, locale, ret>>

\* Lines 647-651 with the result r of lines 642-647: the template is
\* stored in the language cache the check read, and returned
Filled(t, a, r) ==
  /\ caches' = (TableId :> ((a.languages[1] :>
                               ((a.key :> r.template) @@ caches[TableId][a.languages[1]]))
                            @@ caches[TableId])) @@ caches
  /\ arg' = [arg EXCEPT ![t] = [a EXCEPT !.pc = "done", !.template = r.template]]
  /\ call' = [BaseCall EXCEPT !.op = "fillCache", !.isKey = TRUE, !.key = a.key,
                              !.template = r.template]
  /\ diags' = r.diags
  /\ UNCHANGED <<defaultLanguage, translations, locale, ret>>

\* Lines 641-649 of a lookup that found no template
FillCache(t) ==
  /\ arg[t].pc = "checked"
  /\ Filled(t, arg[t],
            ResolveKey(translations, arg[t].key,
                       ExtractLanguages(arg[t].languages,
                                        LanguageOrder(locale, defaultLanguage))))

NextRace ==
  \/ \E t \in Lookups, key \in SharedKeys : CheckCache(t, key)
  \/ \E t \in Lookups : FillCache(t)
  \/ \E value \in SharedLocales : SetLocale(value)

SpecRace == InitRace /\ [][NextRace]_vars

(***************************************************************************)
(* Properties                                                              *)
(***************************************************************************)
IsTranslate(c) == c.op \in {"t", "tc"}

\* The entry a call of t/tc resolves, when it has one: the inline
\* translation, or the entry of the table for a key of the table
HasEntry(c) == IsTranslate(c) /\ (~c.isKey \/ c.key \in DOMAIN translations)
EntryOf(c) == IF c.isKey THEN translations[c.key] ELSE c.entry

\* The fallback order as the specification gives it: language-region when
\* there is a region, the language, the default language
FallbackOrder(loc, default) ==
  (IF loc.region # NoRegion THEN <<Tag(loc.language, loc.region)>> ELSE <<>>)
  \o <<loc.language, default>>

\* The template of the first language of the order that satisfies `has`
TemplateOfFirst(entry, order, has(_)) ==
  IF \E i \in 1..Len(order) : has(order[i])
  THEN LET i == CHOOSE j \in 1..Len(order) :
                  has(order[j]) /\ \A k \in 1..(j - 1) : ~has(order[k])
       IN IF entry[order[i]] = <<>> THEN EmptyTemplate ELSE ParseMessage(entry[order[i]])
  ELSE EmptyTemplate

\* C1, as stated: t/tc resolves the message of the first language of the
\* fallback order that is present in the entry, and a later language is
\* used only when every earlier one is absent from the entry.
C1_FirstPresentLanguage ==
  HasEntry(call) =>
    call.template = TemplateOfFirst(EntryOf(call), FallbackOrder(locale, defaultLanguage),
                                    LAMBDA l : l \in DOMAIN EntryOf(call))

\* C1, amended: t/tc resolves the message of the first language of the
\* fallback order whose message in the entry is a non-empty string; a
\* language whose message is the empty string is passed over like an
\* absent one.
C1_FirstNonEmptyLanguage ==
  HasEntry(call) =>
    LET expected == TemplateOfFirst(EntryOf(call), FallbackOrder(locale, defaultLanguage),
                                    LAMBDA l : l \in DOMAIN EntryOf(call)
                                               /\ EntryOf(call)[l] # <<>>)
    IN /\ call.template = expected
       /\ call.outcome = ReplaceParams(expected, MergeParams(call.n, call.params), locale)

\* C1, witness: the German message of `c` is empty and the call under the
\* locale de-DE of a translator whose default is English got the English one
C1_Witness ==
  /\ IsTranslate(call) /\ call.isKey /\ call.key = KeyCats
  /\ locale = Locale("de", "DE") /\ defaultLanguage = "en"
  /\ call.template = ParseMessage(Table[KeyCats]["en"])
  /\ call.outcome.kind = "return"

\* C2: the fallback order is language-region if a region is set, the
\* language, then the default language only if it differs from both; it
\* has 1 to 3 entries and no identifier twice.
C2_FallbackOrder ==
  LET order == LanguageOrder(locale, defaultLanguage)
      base == (IF locale.region # NoRegion
               THEN <<Tag(locale.language, locale.region)>> ELSE <<>>) \o <<locale.language>>
  IN /\ order = IF \E i \in 1..Len(base) : base[i] = defaultLanguage
                THEN base ELSE Append(base, defaultLanguage)
     /\ Len(order) \in 1..3
     /\ \A i, j \in 1..Len(order) : i # j => order[i] # order[j]

\* C3: assigning `language` leaves the region unchanged, and assigning
\* `region` (to a value or to a falsy value) leaves the language unchanged.
C3_SettersKeepTheOtherField ==
  [][/\ call'.op = "setLanguage" => locale'.region = locale.region
     /\ call'.op = "setRegion" => locale'.language = locale.language]_vars

\* C4: a keyed t/tc call returns what the resolution of the key without a
\* cache returns under the locale current at the call.
C4_CacheNotObservable ==
  IsTranslate(call) /\ call.isKey /\ call.key # EmptyKey =>
    call.outcome =
      ReplaceParams(ResolveKey(translations, call.key,
                               LanguageOrder(locale, defaultLanguage)).template,
                    MergeParams(call.n, call.params), locale)

\* C5: for every non-empty key that is not in the table, t(key) returns
\* the key itself and emits a missing-key diagnostic.
C5_MissingKeyReturnsKey ==
  call.op = "t" /\ call.isKey /\ call.key # EmptyKey /\ call.params = <<>>
  /\ call.key \notin DOMAIN translations =>
    /\ call.outcome = Returned(call.key)
    /\ \E i \in 1..Len(diags) : diags[i] = Diag("missing-key", call.key, "")

\* C6: t/tc with the empty key raises 'No translation key specified',
\* emits no diagnostic and leaves the locale and the cache as they were.
C6_EmptyKeyRaises ==
  [][IsTranslate(call') /\ call'.isKey /\ call'.key = EmptyKey =>
       /\ call'.outcome = Thrown("No translation key specified")
       /\ diags' = <<>>
       /\ locale' = locale
       /\ caches' = caches]_vars

\* C6, witness: the empty key was rejected by a translator that has cached
\* a template
C6_Witness ==
  /\ IsTranslate(call) /\ call.isKey /\ call.key = EmptyKey
  /\ call.outcome.kind = "throw"
  /\ CachedCount(caches) = MaxCached

\* C7: every t/tc call with a non-empty key or an inline translation, and
\* every n/d call, returns a string and never raises.
C7_OnlyTheEmptyKeyRaises ==
  \/ IsTranslate(call) /\ ~(call.isKey /\ call.key = EmptyKey)
  \/ call.op \in {"n", "d"}
  => call.outcome.kind = "return"

\* The values of n that are the number 0, or strings Number() makes 0
ZeroValues == {NumberV(0), StringV(<<"0">>), StringV(<<>>)}

\* The values of n that are the number 1, or strings Number() makes 1
OneValues ==
  {NumberV(10), StringV(<<"1">>), StringV(<<SP, "1", SP>>), StringV(<<"1", ".", "0">>)}

\* The variant the specification selects for a value of n
VariantFor(template, n) ==
  IF n \in ZeroValues THEN template.zero
  ELSE IF n \in OneValues THEN template.singular
  ELSE template.plural

\* C8: the variant depends only on n, a string n being coerced to a
\* number first: 0 selects zero, 1 selects singular, and every other
\* value (negative, fractional, above 1, not a number, absent) plural.
C8_VariantSelection ==
  ret.done =>
    LET n == ParamGet(arg.params, NameN)
    IN /\ ret.selected = VariantFor(arg.template, n)
       /\ arg.template = PlainTemplate =>
            ret.outcome = Returned(VariantFor(PlainTemplate, n))

\* C8, witness: the string " 1 " selected the singular variant
C8_Witness ==
  /\ ret.done
  /\ arg.template = PlainTemplate
  /\ ParamGet(arg.params, NameN) = StringV(<<SP, "1", SP>>)
  /\ ret.outcome = Returned(PlainTemplate.singular)

\* C9: the parsed template follows the variant-count policy on the
\* trimmed segments: one segment is zero, singular and plural; of two the
\* first is singular and the second zero and plural; of three or more the
\* first three are zero, singular and plural, and the others are unused.
C9_VariantCountPolicy ==
  ret.done =>
    LET seg(i) == Trim(ret.segments[i])
        count == Len(ret.segments)
    IN /\ count >= 1
       /\ count = 1 => ret.template = [zero |-> seg(1), singular |-> seg(1), plural |-> seg(1)]
       /\ count = 2 => ret.template = [zero |-> seg(2), singular |-> seg(1), plural |-> seg(2)]
       /\ count >= 3 => ret.template = [zero |-> seg(1), singular |-> seg(2), plural |-> seg(3)]

\* C9, witness: a message of four segments whose fourth is not empty and
\* is not the plural
C9_Witness ==
  /\ ret.done
  /\ Len(ret.segments) = 4
  /\ Trim(ret.segments[4]) # <<>>
  /\ ret.template.plural = Trim(ret.segments[3])
  /\ ret.template.plural # Trim(ret.segments[4])

\* The number of consecutive backslashes of s that end at index i
RECURSIVE BackslashRun(_, _)
BackslashRun(s, i) ==
  IF i >= 1 /\ s[i] = BS THEN 1 + BackslashRun(s, i - 1) ELSE 0

\* C10: a pipe is a split point exactly when the run of backslashes before
\* it has an even length (zero included); a pipe after an odd run of
\* backslashes is never a split point.
C10_SplitPoints ==
  ret.done =>
    ret.points = {i \in 1..Len(arg) : arg[i] = PIPE /\ BackslashRun(arg, i - 1) % 2 = 0}

\* C10, witness: a message with a split point after two backslashes and a
\* pipe after one backslash that is no split point
C10_Witness ==
  /\ ret.done
  /\ \E i \in ret.points : BackslashRun(arg, i - 1) = 2
  /\ \E i \in 1..Len(arg) : arg[i] = PIPE /\ i \notin ret.points

\* The message without its character at index i
Without(s, i) == SubSeq(s, 1, i - 1) \o SubSeq(s, i + 1, Len(s))

\* C11: a message whose only pipe is escaped with a backslash, and which
\* has no other backslash, parses to one segment where the pipe is literal
\* and the backslash is gone: zero, singular and plural are that text.
C11_EscapedPipeIsLiteral ==
  ret.done =>
    \A i \in 2..Len(arg) :
      /\ arg[i] = PIPE /\ arg[i - 1] = BS
      /\ \A j \in 1..Len(arg) : j \notin {i - 1, i} => arg[j] \notin {PIPE, BS}
      => LET text == Trim(Without(arg, i - 1))
         IN ret.template = [zero |-> text, singular |-> text, plural |-> text]

\* The text a placeholder of the name may have at index j of s, as the
\* specification reads it: a brace, white space, the name in either letter
\* case, white space, a brace.  The index after it, or 0.
PlaceholderEnd(s, j, name) ==
  IF j > Len(s) \/ s[j] # "{" THEN 0
  ELSE LET a == j + 1 + SpacesAt(s, j + 1)
           b == a + Len(name)
           c == b + SpacesAt(s, b)
       IN IF /\ b - 1 <= Len(s)
             /\ \A k \in 1..Len(name) : Lower(s[a + k - 1]) = Lower(name[k])
             /\ c <= Len(s) /\ s[c] = "}"
          THEN c + 1 ELSE 0

\* The message with every placeholder of the name replaced by the string,
\* and every escaped one kept without its backslash, from index i on
RECURSIVE Substitute(_, _, _, _)
Substitute(s, i, name, string) ==
  IF i > Len(s) THEN <<>>
  ELSE IF s[i] = BS /\ PlaceholderEnd(s, i + 1, name) # 0
  THEN SubSeq(s, i + 1, PlaceholderEnd(s, i + 1, name) - 1)
       \o Substitute(s, PlaceholderEnd(s, i + 1, name), name, string)
  ELSE IF PlaceholderEnd(s, i, name) # 0
  THEN string \o Substitute(s, PlaceholderEnd(s, i, name), name, string)
  ELSE <<s[i]>> \o Substitute(s, i + 1, name, string)

\* C12: every occurrence of an unescaped placeholder of a parameter (any
\* letter case, optional white space inside the braces) is replaced by the
\* parameter's value, however many there are and wherever they are; stated
\* for the calls whose only parameter is n.
C12_EveryOccurrenceReplaced ==
  ret.done /\ Len(arg.params) = 1 /\ arg.params[1].name = NameN =>
    ret.outcome =
      Returned(Trim(Substitute(ret.selected, 1, NameN,
                               ValueString(arg.loc, arg.params[1].value))))

\* The index of the one opening brace of a message that has one
BraceOpen(s) == CHOOSE j \in 1..Len(s) : s[j] = "{"

\* The message has one opening brace and, after it, one closing brace
OneBracePair(s) ==
  /\ Cardinality({j \in 1..Len(s) : s[j] = "{"}) = 1
  /\ Cardinality({j \in 1..Len(s) : s[j] = "}"}) = 1
  /\ \E j \in 1..Len(s) : s[j] = "}" /\ j > BraceOpen(s) + 1

\* The text between the braces, without the white space around it
BraceName(s) ==
  LET close == CHOOSE j \in 1..Len(s) : s[j] = "}"
  IN Trim(SubSeq(s, BraceOpen(s) + 1, close - 1))

\* The names are equal but for the letter case
SameName(a, b) == Len(a) = Len(b) /\ \A k \in 1..Len(a) : Lower(a[k]) = Lower(b[k])

\* C13: a placeholder whose opening brace follows a backslash is never
\* substituted, whatever the parameters: the output has the literal
\* placeholder, without that backslash.
C13_EscapedPlaceholderKept ==
  ret.done /\ OneBracePair(ret.selected) =>
    LET s == ret.selected
        j == BraceOpen(s)
    IN j > 1 /\ s[j - 1] = BS /\ Cardinality({k \in 1..Len(s) : s[k] = BS}) = 1 =>
         ret.outcome = Returned(Trim(Without(s, j - 1)))

\* C14: a placeholder {x} for which the parameters have no entry named x
\* is unchanged in the string returned.
C14_UnmatchedPlaceholderKept ==
  ret.done /\ ret.selected = <<"{", "x", "}">>
  /\ (\A i \in 1..Len(arg.params) : ~SameName(arg.params[i].name, <<"x">>)) =>
    ret.outcome = Returned(<<"{", "x", "}">>)

\* C20: a placeholder is substituted by a parameter only when the text
\* between its braces, but for white space around it and letter case, is
\* the parameter's name character for character; a placeholder whose name
\* is no parameter's name is not substituted.
C20_ExactNameOnly ==
  ret.done /\ OneBracePair(ret.selected)
  /\ (\A k \in 1..Len(ret.selected) : ret.selected[k] # BS) =>
    LET s == ret.selected
        named == {i \in 1..Len(arg.params) : SameName(arg.params[i].name, BraceName(s))}
    IN IF named = {} THEN ret.outcome = Returned(Trim(s))
       ELSE \E i \in named :
              ret.outcome = Returned(Trim(Substitute(s, 1, arg.params[i].name,
                                                     ValueString(arg.loc, arg.params[i].value))))

\* The n of the merged parameters as the specification gives it: the n of
\* params when params has an entry n, the argument of tc otherwise
MergedN(n, params) ==
  IF \E i \in 1..Len(params) : params[i].name = NameN
  THEN params[CHOOSE i \in 1..Len(params) : params[i].name = NameN].value
  ELSE n

\* The first letters of the variants of EntryShowingN
VariantLetters == [zero |-> "z", singular |-> "s", plural |-> "p"]

\* C15: in tc(x, n, params) the value shown for {n} is params.n when
\* params has an n of its own, and the argument n otherwise.
C15_ShownNumber ==
  ret.done /\ ~arg.translation.isKey /\ arg.translation.entry = EntryShowingN =>
    /\ ret.tc.kind = "return"
    /\ Len(ret.tc.value) >= 1
    /\ Tail(ret.tc.value) = ValueString(arg.loc, MergedN(arg.n, arg.params))

\* C15, witness: tc with the argument 0 and params.n = 2 showed 2
C15_Witness ==
  /\ ret.done /\ arg.translation.entry = EntryShowingN
  /\ arg.n = NumberV(0) /\ arg.params = <<Param(NameN, NumberV(20))>>
  /\ Tail(ret.tc.value) = <<"2">>

\* C16, as stated: the variant is chosen by the argument n of tc, also
\* when params has an n of its own.
C16_VariantByArgument ==
  ret.done /\ ~arg.translation.isKey /\ arg.translation.entry = EntryShowingN =>
    /\ ret.tc.kind = "return"
    /\ Head(ret.tc.value) = VariantFor(VariantLetters, arg.n)

\* C16, amended: the variant is chosen by the n of the merged parameters,
\* which is params.n when params has an n of its own and the argument n
\* otherwise; the same n is the one shown.
C16_VariantByMergedN ==
  ret.done /\ ~arg.translation.isKey /\ arg.translation.entry = EntryShowingN =>
    /\ ret.tc.kind = "return"
    /\ Head(ret.tc.value) = VariantFor(VariantLetters, MergedN(arg.n, arg.params))

\* C16, witness: tc with the argument 0 and params.n = 2 took the plural
C16_Witness ==
  /\ ret.done /\ arg.translation.entry = EntryShowingN
  /\ arg.n = NumberV(0) /\ arg.params = <<Param(NameN, NumberV(20))>>
  /\ ret.tc = Returned(<<"p", "2">>)

\* C17: t(x, params) returns what tc(x, 1, params) returns, and t(x, { n })
\* returns what tc(x, n) returns, for a key and for an inline translation.
C17_TIsTcOfOne ==
  ret.done => ret.t = ret.tcOne /\ ret.tOfN = ret.tcOfN

\* C17, witness: for a key and a number that is not 1, t(x, { n }) is
\* tc(x, n) and is not t(x)
C17_Witness ==
  /\ ret.done /\ arg.translation.isKey /\ arg.translation.key = KeyCats
  /\ arg.n = NumberV(20) /\ arg.params = <<>>
  /\ ret.tOfN = ret.tcOfN /\ ret.tOfN # ret.t
  /\ ret.t = ret.tcOne

MissingDefault(ds) == \E i \in 1..Len(ds) : ds[i].kind = "missing-default-language"

\* The template of the key is in the cache of the language
Cached(cs, language, key) ==
  /\ TableId \in DOMAIN cs
  /\ language \in DOMAIN cs[TableId]
  /\ key \in DOMAIN cs[TableId][language]

\* C18, as stated: the missing-default-language diagnostic is emitted and
\* t/tc returns the empty string exactly when no language of the fallback
\* order is present in the entry; otherwise there is no such diagnostic.
C18_MissingDefaultWhenAbsent ==
  HasEntry(call) /\ call.params = <<>> =>
    LET order == FallbackOrder(locale, defaultLanguage)
        absent == \A i \in 1..Len(order) : order[i] \notin DOMAIN EntryOf(call)
    IN /\ MissingDefault(diags) <=> absent
       /\ absent => call.outcome = Returned(<<>>)

\* C18, amended: with no language of the fallback order that has a
\* non-empty message in the entry, the template is all empty, a call that
\* returns returns the empty string, and the diagnostic is emitted unless
\* the template of the key came from the cache; with a language that has
\* a non-empty message there is no such diagnostic and the template is
\* parsed from the first such message.
C18_MissingDefaultWhenNoMessage ==
  [][HasEntry(call') =>
       LET entry == IF call'.isKey THEN translations[call'.key] ELSE call'.entry
           order == FallbackOrder(locale, defaultLanguage)
           has(l) == l \in DOMAIN entry /\ entry[l] # <<>>
           none == \A i \in 1..Len(order) : ~has(order[i])
           hit == call'.isKey /\ Cached(caches, order[1], call'.key)
       IN /\ MissingDefault(diags') <=> none /\ ~hit
          /\ none => /\ call'.template = EmptyTemplate
                     /\ call'.outcome.kind = "return" => call'.outcome = Returned(<<>>)
          /\ ~none => call'.template = TemplateOfFirst(entry, order, has)]_vars

\* C18, witness: the key `c` has no message for German or for the default
\* de-DE; its empty template came from the cache, without a diagnostic
C18_Witness ==
  /\ call.op = "t" /\ call.isKey /\ call.key = KeyCats
  /\ locale = Locale("de", NoRegion) /\ defaultLanguage = "de-DE"
  /\ Cached(caches, "de", KeyCats)
  /\ call.outcome = Returned(<<>>)
  /\ diags = <<>>

\* C21: n returns the empty string for a null or undefined value, and d
\* for a null, undefined or empty input, whatever the locale and the
\* format; no formatter is invoked and no diagnostic is emitted.
C21_NothingToFormat ==
  \/ call.op = "n" /\ call.value.t = "null"
  \/ call.op = "d" /\ call.input \in {"null", "empty"}
  => call.outcome = Returned(<<>>) /\ diags = <<>>

\* C21, witness: n of null with options the formatter rejects, and d of
\* the empty string with such options, returned the empty string
C21_Witness ==
  /\ call.format = Options("invalid")
  /\ \/ call.op = "n" /\ call.value = NullV
     \/ call.op = "d" /\ call.input = "empty"
  /\ call.outcome = Returned(<<>>)

\* A diagnostic of the kind is among the diagnostics
Emitted(ds, kind) == \E i \in 1..Len(ds) : ds[i].kind = kind

\* C23: n or d with an alias that is not among the configured aliases
\* emits an unknown-alias diagnostic and returns the string of the
\* formatter's default options; it does not raise.
C23_UnknownAlias ==
  /\ call.op = "n" /\ call.value.t = "number" /\ call.format.isAlias
     /\ call.format.alias \notin DOMAIN NumberFormats
     => /\ call.outcome = Returned(FormatNumber(locale, call.value))
        /\ Emitted(diags, "unknown-number-format")
  /\ call.op = "d" /\ call.input = "date" /\ call.format.isAlias
     /\ call.format.alias \notin DOMAIN DateTimeFormats
     => /\ call.outcome.kind = "return"
        /\ Emitted(diags, "unknown-date-format")

IsAssignment(c) == c.op \in {"setLocale", "setLanguage", "setRegion"}

\* An assignment does not raise and the locale has the codes given
AssignedAsGiven ==
  /\ IsAssignment(call) => call.outcome.kind = "return"
  /\ call.op = "setLocale" => NormalizedLanguage(locale) = call.input
  /\ call.op = "setLanguage" => locale.language = call.input
  /\ call.op = "setRegion" => locale.region = call.input

\* The unknown-code diagnostics of a locale
UnknownCodes(loc) ==
  (IF loc.language \in {"xx", "qq"}
   THEN <<Diag("unknown-language", NoKey, loc.language)>> ELSE <<>>)
  \o (IF loc.region = "ZZ" THEN <<Diag("unknown-region", NoKey, "ZZ")>> ELSE <<>>)

Named(ds, kind, code) == \E i \in 1..Len(ds) : ds[i] = Diag(kind, NoKey, code)

C24_InlineBypassesCache ==
  [][IsTranslate(call') /\ ~call'.isKey =>
       LET has(l) == l \in DOMAIN call'.entry /\ call'.entry[l] # <<>>
       IN /\ caches' = caches
          /\ call'.outcome =
               TcReturn(TemplateOfFirst(call'.entry,
                                        FallbackOrder(locale, defaultLanguage), has),
                        call'.n, call'.params, locale)]_vars

\* C24, witness: an inline translation returned a text on a translator
\* whose cache holds a template
C24_Witness ==
  /\ IsTranslate(call) /\ ~call.isKey
  /\ CachedCount(caches) >= 2
  /\ call.outcome.kind = "return" /\ call.outcome.value # <<>>

\* The languages and keys the cache has a template for
CachedPairs(cs) ==
  IF TableId \notin DOMAIN cs THEN {}
  ELSE UNION {{<<l, k>> : k \in DOMAIN cs[TableId][l]} : l \in DOMAIN cs[TableId]}

\* No step changes or removes a template the cache has
CacheKept ==
  \A p \in CachedPairs(caches) :
    /\ p \in CachedPairs(caches')
    /\ caches'[TableId][p[1]][p[2]] = caches[TableId][p[1]][p[2]]

\* C25: the cache only grows.  A keyed lookup leaves in the cache the
\* entry of its primary language and key, created by the first such lookup
\* also when the key is missing from the table or has no message in any
\* language of the order, and no step changes or removes an entry.
C25_CacheOnlyGrows ==
  [][/\ CacheKept
     /\ IsTranslate(call') /\ call'.isKey /\ call'.key # EmptyKey =>
          Cached(caches', LanguageOrder(locale, defaultLanguage)[1], call'.key)]_vars

\* C27: in every state the last language of the order is the normalized
\* default language of the construction.  The entry made up for a key
\* that is missing from the table is therefore found under a language of
\* the order, and the missing-default-language diagnostic names the
\* default language.
C27_DefaultLanguageLast ==
  LET order == LanguageOrder(locale, defaultLanguage)
  IN /\ order[Len(order)] = defaultLanguage
     /\ defaultLanguage \in {NormalizedLanguage(d) : d \in DefaultLocales}
     /\ \A i \in 1..Len(diags) :
          diags[i].kind = "missing-default-language" => diags[i].language = defaultLanguage
     /\ IsTranslate(call) /\ call.isKey /\ call.key # EmptyKey
        /\ call.key \notin DOMAIN translations /\ call.key \notin ObjectPrototypeKeys
        => call.template = ParseMessage(call.key) /\ ~MissingDefault(diags)

\* C27, witness: under the locale de of a translator whose default is
\* de-DE, a key without a German message got the diagnostic for de-DE
C27_Witness ==
  /\ defaultLanguage = Tag("de", "DE")
  /\ locale = Locale("de", NoRegion)
  /\ IsTranslate(call) /\ call.key = KeyCats
  /\ diags = <<Diag("missing-default-language", NoKey, Tag("de", "DE"))>>

\* C28: the missing-key diagnostic of a key is emitted by the first keyed
\* lookup of the key under each primary language and by no later one: a
\* later lookup under the same primary language returns the key and emits
\* nothing, and the first lookup under another primary language emits the
\* diagnostic once more.
C28_MissingKeyOncePerLanguage ==
  [][IsTranslate(call') /\ call'.isKey /\ call'.key # EmptyKey
     /\ call'.key \notin DOMAIN translations =>
       LET first == ~Cached(caches, LanguageOrder(locale, defaultLanguage)[1], call'.key)
       IN /\ Emitted(diags', "missing-key") <=> first
          /\ ~first => diags' = <<>>
          /\ ~first /\ call'.op = "t" /\ call'.params = <<>>
             => call'.outcome = Returned(call'.key)]_vars

C26_TableFixedAtConstruction ==
  [][/\ call'.op = "t" =>
          call'.outcome =
            TcReturn(ResolveKey(Table, call'.key,
                                LanguageOrder(locale, defaultLanguage)).template,
                     NumberV(10), <<>>, locale)
     /\ call'.op \in {"changeOptions", "makeOther", "otherSetLocale", "otherT"} =>
          /\ translations' = translations
          /\ ViewOf(caches', TableId) = ViewOf(caches, TableId)]_vars

\* C26, witness: after the caller changed the English message of `h` and
\* the second translator cached the changed message under en, this
\* translator looked `h` up under en for the first time and returned the
\* message of the construction
C26_Witness ==
  /\ call.op = "t" /\ call.key = KeyHello /\ locale = Locale("en", NoRegion)
  /\ call.outcome = Returned(<<"H", "i">>)
  /\ arg \in ChangedTables /\ "en" \in DOMAIN arg[KeyHello] /\ arg[KeyHello]["en"] = <<"X">>
  /\ OtherTableId \in DOMAIN caches /\ "en" \in DOMAIN caches[OtherTableId]
  /\ KeyHello \in DOMAIN caches[OtherTableId]["en"]
  /\ caches[OtherTableId]["en"][KeyHello].singular = <<"X">>
  /\ caches[TableId]["en"][KeyHello].singular = <<"H", "i">>

\* The fallback order of the locale whose tag is the primary language
OrderBeginningWith(language) ==
  LET loc == CHOOSE l \in SharedLocales : NormalizedLanguage(l) = language
  IN FallbackOrder(loc, defaultLanguage)

\* C30: however keyed lookups, cut between the check and the fill of the
\* cache, interleave with each other and with changes of the locale, every
\* entry of the cache is the template that the resolution without a cache
\* gives for the order that begins with the primary language of the
\* entry, and two lookups of the same key under the same primary language
\* return equal templates.
C30_InterleavedLookups ==
  /\ \A p \in CachedPairs(caches) :
       caches[TableId][p[1]][p[2]]
         = ResolveKey(translations, p[2], OrderBeginningWith(p[1])).template
  /\ \A t, u \in Lookups :
       arg[t].pc = "done" /\ arg[u].pc = "done" /\ arg[t].key = arg[u].key
       /\ arg[t].languages[1] = arg[u].languages[1]
       => arg[t].template = arg[u].template

\* C30, witness: two lookups of `h` were called under en, the locale
\* became de before the last of them filled the cache, and both returned
\* the English template
C30_Witness ==
  /\ call.op = "fillCache" /\ locale = Locale("de", NoRegion)
  /\ \A t \in Lookups :
       /\ arg[t].pc = "done" /\ arg[t].key = KeyHello /\ arg[t].languages[1] = "en"
       /\ arg[t].template.singular = <<"H", "i">>
  /\ DOMAIN caches[TableId] = {"en"}

====
